---- MODULE Spec2Model ----
(***************************************************************************)
(* Model of the Jira ingestion pipeline (scraper.py): the checkpoint file, *)
(* the paginated fetcher with its retry loop, and run_pipeline, stepped at *)
(* the granularity of its externally visible effects (file truncation,     *)
(* file write, raw append), so that the process can be killed between any  *)
(* two of them.                                                            *)
(***************************************************************************)
EXTENDS Integers, Sequences, FiniteSets, TLC

\* ---------------------------------------------------------------- bounds
\* Largest 'total' and largest page length the remote service answers with,
\* and the number of process starts (runs) explored.
MaxTotal == 2
MaxPage == 2
MaxRuns == 2
\* Longest text given to the normalizer (the examples aside) and longest raw
\* file given to the transformation pass, in lines.
MaxText == 4
MaxLines == 3

\* ------------------------------------------------------------- constants
MAX_RETRIES == 5
RATE_LIMIT_SLEEP == 60
SERVER_ERROR_SLEEP == 15
NETWORK_ERROR_SLEEP == 15
HTTP_TOO_MANY_REQUESTS == 429
HTTP_SERVER_ERROR == 500
HTTP_BAD_REQUEST == 400

\* The configured list, and the list the scraper is constructed with
\* (JiraScraper(projects=...)): here the first two configured projects.
PROJECTS_TO_FETCH == <<"SPARK", "KAFKA", "HADOOP">>
projects_to_fetch == SubSeq(PROJECTS_TO_FETCH, 1, 2)
NumProjects == Len(projects_to_fetch)
Projects == {projects_to_fetch[k] : k \in 1..NumProjects}
ConfiguredKeys == {PROJECTS_TO_FETCH[k] : k \in 1..Len(PROJECTS_TO_FETCH)}

\* ------------------------------------------------------ progress markers
\* A marker is an integer offset or the string "COMPLETED"; it is kept as a
\* tagged record so that the two kinds can be compared.
Offset(n) == [done |-> FALSE, off |-> n]
COMPLETED == [done |-> TRUE, off |-> 0]
ZeroMap == [p \in Projects |-> Offset(0)]
EmptyMap == [p \in {} |-> Offset(0)]

\* The checkpoint file: absent, present with text that json.load rejects
\* (empty after open(...,'w') truncated it, or a strict prefix of a dump), or
\* present with a JSON object.
FileMissing == [st |-> "missing", data |-> EmptyMap]
FileCorrupt == [st |-> "corrupt", data |-> EmptyMap]
FileValid(m) == [st |-> "valid", data |-> m]

\* Mutant of LoadCheckpoint: a valid file is returned as it is, the
\* configured projects it lacks are not added.
LoadCheckpoint_NoFill(f) ==
    IF f.st = "missing" THEN ZeroMap
    ELSE IF f.st = "corrupt" THEN ZeroMap
    ELSE f.data

\* _load_checkpoint
LoadCheckpoint(f) ==
    IF f.st = "missing" THEN ZeroMap
    ELSE IF f.st = "corrupt" THEN ZeroMap
    ELSE [p \in (DOMAIN f.data) \cup Projects |->
            IF p \in DOMAIN f.data THEN f.data[p] ELSE Offset(0)]

\* ------------------------------------------------------------ the fetcher
\* One answer of the remote service to one request: a raised
\* RequestException, or a status code with (for a success) a page body.
NetworkError == [exc |-> TRUE, status |-> 0, body |-> 0]
Status(s) == [exc |-> FALSE, status |-> s, body |-> 0]
Page(b) == [exc |-> FALSE, status |-> 200, body |-> b]
PageBodies == {1, 2}
Responses ==
    {NetworkError, Status(429), Status(500), Status(503), Status(404)}
        \cup {Page(b) : b \in PageBodies}

\* The service's answers to the 1st, 2nd, ... request of one call; the last
\* one is repeated for every further request.
SvcSeqs == [1..MAX_RETRIES -> Responses]
Answer(svc, k) == svc[IF k > Len(svc) THEN Len(svc) ELSE k]

\* response.ok: the status is below 400
ResponseOk(r) == r.status < HTTP_BAD_REQUEST

\* Mutant of AttemptLimit: one attempt too many.
AttemptLimit_OffByOne == MAX_RETRIES + 1

\* range(MAX_RETRIES)
AttemptLimit == MAX_RETRIES

\* Mutant of Classify: every status from 400 up is taken for a server error
\* and retried.
Classify_RetryClientErrors(r) ==
    IF r.exc THEN "network"
    ELSE IF r.status = HTTP_TOO_MANY_REQUESTS THEN "rate_limited"
    ELSE IF r.status >= HTTP_BAD_REQUEST THEN "server_error"
    ELSE "ok"

\* What one attempt of the loop body does with the answer it got.
Classify(r) ==
    IF r.exc THEN "network"
    ELSE IF r.status = HTTP_TOO_MANY_REQUESTS THEN "rate_limited"
    ELSE IF r.status >= HTTP_SERVER_ERROR THEN "server_error"
    ELSE IF ~ResponseOk(r) THEN "client_error"
    ELSE "ok"

\* Mutant of Backoff: a server error is retried without sleeping.
Backoff_NoServerSleep(kind) ==
    IF kind = "rate_limited" THEN RATE_LIMIT_SLEEP
    ELSE IF kind = "network" THEN NETWORK_ERROR_SLEEP
    ELSE 0

\* time.sleep(...) of the attempt
Backoff(kind) ==
    IF kind = "rate_limited" THEN RATE_LIMIT_SLEEP
    ELSE IF kind = "server_error" THEN SERVER_ERROR_SLEEP
    ELSE IF kind = "network" THEN NETWORK_ERROR_SLEEP
    ELSE 0

FetchResult(ok, body, requests, slept) ==
    [done |-> TRUE, ok |-> ok, body |-> body, requests |-> requests, slept |-> slept]
NoFetchResult ==
    [done |-> FALSE, ok |-> FALSE, body |-> 0, requests |-> 0, slept |-> 0]

RECURSIVE FetchLoop(_, _, _, _)
FetchLoop(svc, attempt, requests, slept) ==
    IF attempt >= AttemptLimit
    THEN FetchResult(FALSE, 0, requests, slept)
    ELSE LET r == Answer(svc, requests + 1)
             kind == Classify(r)
         IN  IF kind = "client_error"
             THEN FetchResult(FALSE, 0, requests + 1, slept)
             ELSE IF kind = "ok"
             THEN FetchResult(TRUE, r.body, requests + 1, slept)
             ELSE FetchLoop(svc, attempt + 1, requests + 1, slept + Backoff(kind))

\* _fetch_jira_page
FetchJiraPage(svc) == FetchLoop(svc, 0, 0, 0)

\* ======================================================= src/transformer.py
\* ------------------------------------------------------ JSON values read
\* A text is a sequence of characters (one-character strings); an HTML tag,
\* which BeautifulSoup parses as a unit, is one element of the sequence.
\* A value of a raw record is held with a tag: absent from its dict, JSON
\* null, or present with the value val.
JMissing == [tag |-> "missing", val |-> <<>>]
JNull == [tag |-> "null", val |-> <<>>]
JText(s) == [tag |-> "str", val |-> s]

Tags == {"<b>", "</b>", "<br>"}
Whitespace == {" ", "\n", "\t"}
Digits == {"0", "1", "2", "3", "4", "5", "6", "7", "8", "9"}
EMAIL_REMOVED == "[EMAIL_REMOVED]"
IP_REMOVED == "[IP_REMOVED]"
\* The characters in use that \w does not match.
NonWord ==
    Whitespace \cup Tags \cup
        {"{", "}", "[", "]", "|", "@", ".", "=", ":", "/", EMAIL_REMOVED, IP_REMOVED}
IsWord(c) == c \notin NonWord

\* Index of the first element of t at or after k that is in S; 0 if none.
FirstIndex(t, k, S) ==
    IF \E j \in k..Len(t) : t[j] \in S
    THEN CHOOSE j \in k..Len(t) :
            /\ t[j] \in S
            /\ \A h \in k..(j - 1) : t[h] \notin S
    ELSE 0
\* Index of the last element of the maximal run of elements of S that
\* starts at k (t[k] is in S).
RunEnd(t, k, S) ==
    CHOOSE j \in k..Len(t) :
        /\ \A h \in k..j : t[h] \in S
        /\ (j = Len(t) \/ t[j + 1] \notin S)

\* soup.get_text(separator=' '): the text nodes, joined by one space.
\* mode: "start" no text node yet, "text" inside one, "gap" tags since one.
RECURSIVE GetText(_, _, _)
GetText(t, k, mode) ==
    IF k > Len(t) THEN <<>>
    ELSE IF t[k] \in Tags
         THEN GetText(t, k + 1, IF mode = "start" THEN "start" ELSE "gap")
         ELSE (IF mode = "gap" THEN <<" ", t[k]>> ELSE <<t[k]>>)
                  \o GetText(t, k + 1, "text")

\* Mutant of SubDirectives: the block is deleted, nothing takes its place.
RECURSIVE SubDirectives_Delete(_, _)
SubDirectives_Delete(t, k) ==
    IF k > Len(t) THEN <<>>
    ELSE LET q == FirstIndex(t, k + 1, {"}"})
         IN  IF t[k] = "{" /\ q >= k + 2
             THEN SubDirectives_Delete(t, q + 1)
             ELSE <<t[k]>> \o SubDirectives_Delete(t, k + 1)

\* re.sub(r'\{[^\}]+\}', ' ', text), from position k on.
RECURSIVE SubDirectives(_, _)
SubDirectives(t, k) ==
    IF k > Len(t) THEN <<>>
    ELSE LET q == FirstIndex(t, k + 1, {"}"})
         IN  IF t[k] = "{" /\ q >= k + 2
             THEN <<" ">> \o SubDirectives(t, q + 1)
             ELSE <<t[k]>> \o SubDirectives(t, k + 1)

\* re.sub(r'\[([^\|\]]+)\|[^\]]+\]', r'\1', text), from position k on.
RECURSIVE SubLinks(_, _)
SubLinks(t, k) ==
    IF k > Len(t) THEN <<>>
    ELSE LET a == FirstIndex(t, k + 1, {"|", "]"})
             r == IF a = 0 THEN 0 ELSE FirstIndex(t, a + 1, {"]"})
         IN  IF /\ t[k] = "["
                /\ a >= k + 2
                /\ t[a] = "|"
                /\ r >= a + 2
             THEN SubSeq(t, k + 1, a - 1) \o SubLinks(t, r + 1)
             ELSE <<t[k]>> \o SubLinks(t, k + 1)

\* \S+@\S+\.\S+ matches in the run of non-blank characters t[s..e]; when it
\* does, the leftmost greedy match is the whole run.
IsEmailToken(t, s, e) ==
    \E a \in (s + 1)..e, d \in (s + 3)..(e - 1) :
        /\ t[a] = "@"
        /\ d >= a + 2
        /\ t[d] = "."

\* re.sub(r'\S+@\S+\.\S+', '[EMAIL_REMOVED]', text), from position k on.
RECURSIVE SubEmails(_, _)
SubEmails(t, k) ==
    IF k > Len(t) THEN <<>>
    ELSE IF t[k] \in Whitespace THEN <<t[k]>> \o SubEmails(t, k + 1)
    ELSE LET NonBlank == {t[j] : j \in k..Len(t)} \ Whitespace
             e == RunEnd(t, k, NonBlank)
         IN  (IF IsEmailToken(t, k, e) THEN <<EMAIL_REMOVED>> ELSE SubSeq(t, k, e))
                 \o SubEmails(t, e + 1)

\* End of a group \d{1,3} that starts at k and is followed by what the
\* pattern wants next; 0 if there is none.
DigitGroup(t, k) ==
    IF k > Len(t) \/ k = 0 THEN 0
    ELSE IF t[k] \notin Digits THEN 0
    ELSE LET e == RunEnd(t, k, Digits) IN IF e - k + 1 <= 3 THEN e ELSE 0
DotAfter(t, e) == IF e # 0 /\ e + 1 <= Len(t) /\ t[e + 1] = "." THEN e + 2 ELSE 0
\* End of the match of \b\d{1,3}\.\d{1,3}\.\d{1,3}\.\d{1,3}\b at k; 0 if none.
IPMatchEnd(t, k) ==
    LET e4 == DigitGroup(t, DotAfter(t, DigitGroup(t, DotAfter(t,
                  DigitGroup(t, DotAfter(t, DigitGroup(t, k)))))))
    IN  IF /\ (k = 1 \/ ~IsWord(t[k - 1]))
           /\ e4 # 0
           /\ (e4 = Len(t) \/ ~IsWord(t[e4 + 1]))
        THEN e4 ELSE 0

\* re.sub(r'\b\d{1,3}\.\d{1,3}\.\d{1,3}\.\d{1,3}\b', '[IP_REMOVED]', text)
RECURSIVE SubIPs(_, _)
SubIPs(t, k) ==
    IF k > Len(t) THEN <<>>
    ELSE LET e == IPMatchEnd(t, k)
         IN  IF e # 0 THEN <<IP_REMOVED>> \o SubIPs(t, e + 1)
             ELSE <<t[k]>> \o SubIPs(t, k + 1)

\* re.sub(r'\s+', ' ', text), from position k on.
RECURSIVE SubWhitespace(_, _)
SubWhitespace(t, k) ==
    IF k > Len(t) THEN <<>>
    ELSE IF t[k] \in Whitespace
         THEN <<" ">> \o SubWhitespace(t, RunEnd(t, k, Whitespace) + 1)
         ELSE <<t[k]>> \o SubWhitespace(t, k + 1)

\* str.strip()
Strip(t) ==
    LET a == FirstIndex(t, 1, {t[j] : j \in 1..Len(t)} \ Whitespace)
    IN  IF a = 0 THEN <<>>
        ELSE SubSeq(t, a, CHOOSE b \in a..Len(t) :
                            /\ t[b] \notin Whitespace
                            /\ \A h \in (b + 1)..Len(t) : t[h] \in Whitespace)

\* _clean_text(text), text a JSON value: None and "" give "".
CleanText(text) ==
    IF text.tag # "str" \/ text.val = <<>> THEN <<>>
    ELSE Strip(SubWhitespace(SubIPs(SubEmails(SubLinks(SubDirectives(
             GetText(text.val, 1, "start"), 1), 1), 1), 1), 1))

\* ------------------------------------------------- _create_derived_tasks
\* A string-valued or dict-valued member of a raw record: absent, null, a
\* string, or a dict whose 'name' (for an author, 'displayName') is val.
SMissing == [tag |-> "missing", val |-> ""]
SNull == [tag |-> "null", val |-> ""]
SStr(s) == [tag |-> "str", val |-> s]
Named(n) == [tag |-> "dict", val |-> n]

\* One element of fields.comment.comments.
Comment(author, body) == [author |-> author, body |-> body]
\* fields.comment: absent, null, or a dict with the list 'comments'.
CommentMissing == [tag |-> "missing", comments |-> <<>>]
CommentNull == [tag |-> "null", comments |-> <<>>]
CommentDict(cs) == [tag |-> "dict", comments |-> cs]

\* raw_issue.fields: absent, null, or a dict of the members derive reads.
FieldsDict(summary, status, priority, issuetype, description, comment) ==
    [tag |-> "dict", summary |-> summary, status |-> status,
     priority |-> priority, issuetype |-> issuetype,
     description |-> description, comment |-> comment]
EmptyFields == FieldsDict(SMissing, SMissing, SMissing, SMissing, JMissing, CommentMissing)
FieldsMissing == [EmptyFields EXCEPT !.tag = "missing"]
FieldsNull == [EmptyFields EXCEPT !.tag = "null"]

\* One line of the raw file: not JSON, JSON that is not an object (a list,
\* a number, a string, null), or an object.
MalformedLine == [kind |-> "malformed", key |-> SMissing, fields |-> FieldsMissing]
NonObjectLine == [kind |-> "nonobject", key |-> SMissing, fields |-> FieldsMissing]
ObjectLine(key, fields) == [kind |-> "object", key |-> key, fields |-> fields]

\* f"{key}": the key as it is formatted into the task ids.
KeyStr(key) == IF key.tag = "str" THEN key.val ELSE "None"
\* fields.get(m, {}).get('name', 'Unknown') for a member that is not null.
NameOf(v, default) == IF v.tag = "dict" THEN v.val ELSE default
\* fields.get('summary', '') or ''
SummaryOf(v) == IF v.tag = "str" THEN v.val ELSE ""
\* raw_issue.get('fields', {})
FieldsOf(raw_issue) ==
    IF raw_issue.fields.tag = "missing" THEN EmptyFields ELSE raw_issue.fields

\* An AttributeError is raised inside the try block, after key was bound.
DeriveFails(raw_issue) ==
    LET fields == FieldsOf(raw_issue)
    IN  \/ fields.tag = "null"
        \/ fields.status.tag = "null"
        \/ fields.priority.tag = "null"
        \/ fields.issuetype.tag = "null"
        \/ fields.comment.tag = "null"
        \/ \E j \in 1..Len(fields.comment.comments) :
              fields.comment.comments[j].author.tag = "null"

\* comments_text: the comments whose cleaned body is not empty, each with
\* its author's display name.
CommentsText(comments) ==
    SelectSeq([j \in 1..Len(comments) |->
                  [author |-> NameOf(comments[j].author, "User"),
                   body |-> CleanText(comments[j].body)]],
              LAMBDA c : c.body # <<>>)

TaskSuffixes == <<"_summary", "_qna_status", "_classify_priority", "_classify_type">>
\* One derived task: its id is the key followed by the suffix.
Task(key, suffix, summary, description, comments_text, completion) ==
    [id |-> <<KeyStr(key), suffix>>,
     prompt |-> [task |-> suffix, title |-> summary,
                 description |-> description, comments |-> comments_text],
     completion |-> completion]

Returned(tasks) == [raised |-> FALSE, tasks |-> tasks]
Raised == [raised |-> TRUE, tasks |-> <<>>]

\* Mutant of Derive: a record without description and comments is kept.
Derive_KeepEmpty(raw_issue) ==
    IF raw_issue.kind # "object" THEN Raised
    ELSE IF DeriveFails(raw_issue) THEN Returned(<<>>)
    ELSE LET fields == FieldsOf(raw_issue)
             key == raw_issue.key
             summary == SummaryOf(fields.summary)
             description == CleanText(fields.description)
             comments_text == CommentsText(fields.comment.comments)
         IN  IF summary = ""
             THEN Returned(<<>>)
             ELSE Returned(<<
                 Task(key, "_summary", summary, description, comments_text, summary),
                 Task(key, "_qna_status", summary, description, comments_text,
                      NameOf(fields.status, "Unknown")),
                 Task(key, "_classify_priority", summary, description, comments_text,
                      NameOf(fields.priority, "Unknown")),
                 Task(key, "_classify_type", summary, description, comments_text,
                      NameOf(fields.issuetype, "Unknown"))>>)

\* _create_derived_tasks(raw_issue), raw_issue being what json.loads gave.
\* For a value that is not an object, raw_issue.get raises before key is
\* bound, and the handler's own f"...{key}..." raises UnboundLocalError.
Derive(raw_issue) ==
    IF raw_issue.kind # "object" THEN Raised
    ELSE IF DeriveFails(raw_issue) THEN Returned(<<>>)
    ELSE LET fields == FieldsOf(raw_issue)
             key == raw_issue.key
             summary == SummaryOf(fields.summary)
             description == CleanText(fields.description)
             comments_text == CommentsText(fields.comment.comments)
         IN  IF summary = "" \/ (description = <<>> /\ comments_text = <<>>)
             THEN Returned(<<>>)
             ELSE Returned(<<
                 Task(key, "_summary", summary, description, comments_text, summary),
                 Task(key, "_qna_status", summary, description, comments_text,
                      NameOf(fields.status, "Unknown")),
                 Task(key, "_classify_priority", summary, description, comments_text,
                      NameOf(fields.priority, "Unknown")),
                 Task(key, "_classify_type", summary, description, comments_text,
                      NameOf(fields.issuetype, "Unknown"))>>)

\* The inner for loop of run_transformation over one record's tasks, from
\* the k-th on: st holds seen_task_ids, the output file and derived_count.
RECURSIVE WriteTasks(_, _, _)
WriteTasks(tasks, k, st) ==
    IF k > Len(tasks) THEN st
    ELSE WriteTasks(tasks, k + 1,
            IF tasks[k].id \notin st.seen
            THEN [seen |-> st.seen \cup {tasks[k].id},
                  out |-> Append(st.out, tasks[k]),
                  n |-> st.n + 1]
            ELSE st)

\* ------------------------------------------- run_transformation, its state
NotCleaned == [done |-> FALSE, val |-> <<>>]
NotDerived == [done |-> FALSE, raised |-> FALSE, tasks |-> <<>>]
NoRawFile == [exists |-> FALSE, lines |-> <<>>]
RawFile(ls) == [exists |-> TRUE, lines |-> ls]


\* The services the pipeline runs against: each answers every request of a
\* call the same way.
SteadySvc == {[k \in 1..MAX_RETRIES |-> r] : r \in Responses}

VARIABLES
    file,             \* the checkpoint file
    rawCount,         \* raw records appended to the output file, per project
    rawSet,           \* the distinct records among them, by position, per project
    remote,           \* steady remote: the number of issues of each project
    checkpoint_data,  \* self.checkpoint_data
    pc,               \* position of the process; "idle" = no process running
    i,                \* index of the project of the for loop
    current_index,
    total_issues,
    issues_on_page,   \* len(issues_on_page)
    after,            \* where control goes once the pending save returns
    fetches,          \* history: fetch calls made in the current project's loop
    runs,             \* process starts so far
    lastSnap,         \* history: the last snapshot written completely
    everTerminal,     \* history: projects whose COMPLETED was ever persisted
    visit,            \* history: what this run did with each project so far
    ranToEnd,         \* history: some run went through its whole for loop
    svc,              \* fetcher check: the service's answers
    fres,             \* fetcher check: what the call returned
    text,             \* normalizer check: the argument of _clean_text
    cleaned,          \* normalizer check: what the call returned
    raw_issue,        \* deriver check: the argument of _create_derived_tasks
    derived,          \* deriver check: how the call ended
    infile,           \* transformer: the raw file, line by line
    tpc,              \* transformer: where run_transformation is
    pos,              \* transformer: the line the for loop is at
    seen_task_ids,
    outfile,          \* transformer: the tasks written, in order
    count,
    derived_count

vars == <<file, rawCount, rawSet, remote, checkpoint_data, pc, i, current_index,
          total_issues, issues_on_page, after, fetches, runs, lastSnap,
          everTerminal, visit, ranToEnd, svc, fres, text, cleaned, raw_issue,
          derived, infile, tpc, pos, seen_task_ids, outfile, count,
          derived_count>>

fetchVars == <<svc, fres>>
transVars == <<text, cleaned, raw_issue, derived, infile, tpc, pos,
               seen_task_ids, outfile, count, derived_count>>
NotVisited == [p \in Projects |-> "no"]
hist == <<lastSnap, everTerminal, ranToEnd, remote>>
raw == <<rawCount, rawSet>>
NoRecords == [p \in Projects |-> {}]
\* The records a page of n issues fetched at offset o holds, by position.
PageRecords(o, n) == (o + 1)..(o + n)
project == projects_to_fetch[i]

\* No transformer is running and nothing was given to a check of its parts.
TransformerStart ==
    /\ text = JNull
    /\ cleaned = NotCleaned
    /\ raw_issue = NonObjectLine
    /\ derived = NotDerived
    /\ infile = NoRawFile
    /\ tpc = "idle"
    /\ pos = 1
    /\ seen_task_ids = {}
    /\ outfile = <<>>
    /\ count = 0
    /\ derived_count = 0

Init ==
    /\ file = FileMissing
    /\ rawCount = [p \in Projects |-> 0]
    /\ rawSet = NoRecords
    /\ remote = [p \in Projects |-> 0]
    /\ ranToEnd = FALSE
    /\ checkpoint_data = ZeroMap
    /\ pc = "idle"
    /\ i = 1
    /\ current_index = 0
    /\ total_issues = -1
    /\ issues_on_page = 0
    /\ after = "none"
    /\ fetches = 0
    /\ runs = 0
    /\ lastSnap = ZeroMap
    /\ everTerminal = {}
    /\ visit = NotVisited
    /\ svc = [k \in 1..MAX_RETRIES |-> NetworkError]
    /\ fres = NoFetchResult
    /\ TransformerStart

\* The process is gone: nothing of its memory remains.
Exit ==
    /\ pc' = "idle"
    /\ checkpoint_data' = ZeroMap
    /\ i' = 1
    /\ current_index' = 0
    /\ total_issues' = -1
    /\ issues_on_page' = 0
    /\ after' = "none"
    /\ fetches' = 0
    /\ visit' = NotVisited

\* __main__ step 1, JiraScraper.__init__: the checkpoint is loaded.
Construct ==
    /\ pc = "idle"
    /\ runs < MaxRuns
    /\ runs' = runs + 1
    /\ checkpoint_data' = LoadCheckpoint(file)
    /\ pc' = "constructed"
    /\ UNCHANGED <<file, raw, i, current_index, total_issues, issues_on_page,
                   after, fetches, hist, visit, fetchVars, transVars>>

\* __main__ step 2: scraper.run_pipeline() is entered.
RunPipeline ==
    /\ pc = "constructed"
    /\ pc' = "loop"
    /\ i' = 1
    /\ UNCHANGED <<file, raw, checkpoint_data, current_index, total_issues,
                   issues_on_page, after, fetches, runs, hist, visit, fetchVars, transVars>>

\* run_pipeline has returned (pc = "returned"): the process ends.
ProcessEnd ==
    /\ pc = "returned"
    /\ Exit
    /\ UNCHANGED <<file, raw, runs, hist, fetchVars, transVars>>

\* break / continue of the while loop body: on to the next project.
NextProject ==
    /\ pc' = "loop"
    /\ i' = i + 1
    /\ current_index' = 0
    /\ total_issues' = -1
    /\ issues_on_page' = 0
    /\ after' = "none"
    /\ fetches' = 0

\* for project in ...: the marker is COMPLETED, continue.
LoopSkip ==
    /\ pc = "loop"
    /\ i <= NumProjects
    /\ checkpoint_data[project].done
    /\ NextProject
    /\ visit' = [visit EXCEPT ![project] = "skipped"]
    /\ UNCHANGED <<file, raw, checkpoint_data, runs, hist, fetchVars, transVars>>

\* for project in ...: resume from the marker's offset.
LoopEnter ==
    /\ pc = "loop"
    /\ i <= NumProjects
    /\ ~checkpoint_data[project].done
    /\ current_index' = checkpoint_data[project].off
    /\ total_issues' = -1
    /\ pc' = "fetch"
    /\ visit' = [visit EXCEPT ![project] = "entered"]
    /\ UNCHANGED <<file, raw, checkpoint_data, i, issues_on_page, after, fetches,
                   runs, hist, fetchVars, transVars>>

\* The for loop is exhausted: run_pipeline returns.
LoopExit ==
    /\ pc = "loop"
    /\ i > NumProjects
    /\ pc' = "returned"
    /\ ranToEnd' = TRUE
    /\ UNCHANGED <<file, raw, checkpoint_data, i, current_index, total_issues,
                   issues_on_page, after, fetches, runs, lastSnap, everTerminal, remote,
                   visit, fetchVars, transVars>>

\* Mutant of FetchFail: a failed fetch returns from run_pipeline instead of
\* breaking out of the project's loop.
FetchFail_Return ==
    /\ pc = "fetch"
    /\ \E s \in SteadySvc : ~FetchJiraPage(s).ok
    /\ pc' = "returned"
    /\ visit' = [visit EXCEPT ![project] = "failed"]
    /\ UNCHANGED <<file, raw, checkpoint_data, i, current_index, total_issues,
                   issues_on_page, after, fetches, runs, hist, fetchVars, transVars>>

\* ------------------------------------------------------- the while loop
\* _fetch_jira_page returned None: break.
FetchFail ==
    /\ pc = "fetch"
    /\ \E s \in SteadySvc : ~FetchJiraPage(s).ok
    /\ NextProject
    /\ visit' = [visit EXCEPT ![project] = "failed"]
    /\ UNCHANGED <<file, raw, checkpoint_data, runs, hist, fetchVars, transVars>>

\* total_issues after "if total_issues == -1: total_issues = data.get('total', 0)"
TotalAfter(total) == IF total_issues = -1 THEN total ELSE total_issues

\* A page arrived; it is the first of this project in this run and its
\* total is 0: break, nothing is written.
FetchOkZeroTotal ==
    /\ pc = "fetch"
    /\ \E s \in SteadySvc : FetchJiraPage(s).ok
    /\ total_issues = -1
    /\ \E n \in 0..MaxPage :
          /\ NextProject
          /\ visit' = [visit EXCEPT ![project] = "zero_total"]
          /\ UNCHANGED <<file, raw, checkpoint_data, runs, hist, fetchVars, transVars>>

\* Mutant of FetchOkEmptyPage: an empty page before the total is reached
\* only breaks out of the loop, nothing is marked.
FetchOkEmptyPage_OnlyCleanFinish ==
    /\ pc = "fetch"
    /\ \E s \in SteadySvc : FetchJiraPage(s).ok
    /\ \E total \in 0..MaxTotal :
          /\ TotalAfter(total) # 0
          /\ IF current_index >= TotalAfter(total)
             THEN /\ total_issues' = TotalAfter(total)
                  /\ issues_on_page' = 0
                  /\ checkpoint_data' = [checkpoint_data EXCEPT ![project] = COMPLETED]
                  /\ after' = "break"
                  /\ pc' = "save_open"
                  /\ fetches' = fetches + 1
                  /\ UNCHANGED <<file, raw, i, current_index, runs, hist, visit,
                                 fetchVars, transVars>>
             ELSE /\ NextProject
                  /\ UNCHANGED <<file, raw, checkpoint_data, runs, hist, visit,
                                 fetchVars, transVars>>

\* A page arrived with no issues: mark COMPLETED, save, break.
FetchOkEmptyPage ==
    /\ pc = "fetch"
    /\ \E s \in SteadySvc : FetchJiraPage(s).ok
    /\ \E total \in 0..MaxTotal :
          /\ TotalAfter(total) # 0
          /\ total_issues' = TotalAfter(total)
          /\ issues_on_page' = 0
          /\ checkpoint_data' = [checkpoint_data EXCEPT ![project] = COMPLETED]
          /\ after' = "break"
          /\ pc' = "save_open"
          /\ fetches' = fetches + 1
          /\ UNCHANGED <<file, raw, i, current_index, runs, hist, visit,
                         fetchVars, transVars>>

\* A page arrived with n >= 1 issues: on to the transaction-like save.
FetchOkPage ==
    /\ pc = "fetch"
    /\ \E s \in SteadySvc : FetchJiraPage(s).ok
    /\ \E total \in 0..MaxTotal, n \in 1..MaxPage :
          /\ TotalAfter(total) # 0
          /\ total_issues' = TotalAfter(total)
          /\ issues_on_page' = n
          /\ pc' = "append"
          /\ fetches' = fetches + 1
          /\ UNCHANGED <<file, raw, checkpoint_data, i, current_index, after,
                         runs, hist, visit, fetchVars, transVars>>

\* Mutant of AppendOk: the offset is advanced in memory only, the checkpoint
\* is not saved before the loop goes on.
AppendOk_NoSave ==
    /\ pc = "append"
    /\ rawCount' = [rawCount EXCEPT ![project] = @ + issues_on_page]
    /\ rawSet' = [rawSet EXCEPT ![project] = @ \cup PageRecords(current_index, issues_on_page)]
    /\ current_index' = current_index + issues_on_page
    /\ checkpoint_data' =
          [checkpoint_data EXCEPT ![project] = Offset(current_index + issues_on_page)]
    /\ pc' = "check"
    /\ UNCHANGED <<file, i, total_issues, issues_on_page, after, fetches, runs, hist,
                   visit, fetchVars, transVars>>

\* Mutant of AppendOk: the offset is advanced by the requested page size,
\* not by the number of issues written.
AppendOk_AdvanceByPageSize ==
    /\ pc = "append"
    /\ rawCount' = [rawCount EXCEPT ![project] = @ + issues_on_page]
    /\ rawSet' = [rawSet EXCEPT ![project] = @ \cup PageRecords(current_index, issues_on_page)]
    /\ current_index' = current_index + MaxPage
    /\ checkpoint_data' =
          [checkpoint_data EXCEPT ![project] = Offset(current_index + MaxPage)]
    /\ after' = "check"
    /\ pc' = "save_open"
    /\ fetches' = fetches
    /\ UNCHANGED <<file, i, total_issues, issues_on_page, runs, hist, visit,
                   fetchVars, transVars>>

\* _save_issues_to_jsonl returned True; the offset is advanced in memory and
\* the checkpoint save is next.
AppendOk ==
    /\ pc = "append"
    /\ rawCount' = [rawCount EXCEPT ![project] = @ + issues_on_page]
    /\ rawSet' = [rawSet EXCEPT ![project] = @ \cup PageRecords(current_index, issues_on_page)]
    /\ current_index' = current_index + issues_on_page
    /\ checkpoint_data' =
          [checkpoint_data EXCEPT ![project] = Offset(current_index + issues_on_page)]
    /\ after' = "check"
    /\ pc' = "save_open"
    /\ fetches' = fetches
    /\ UNCHANGED <<file, i, total_issues, issues_on_page, runs, hist, visit,
                   fetchVars, transVars>>

\* Mutant of AppendFail: the write failure only breaks out of the project's
\* loop, the run goes on with the next project.
AppendFail_Break ==
    /\ pc = "append"
    /\ \E k \in 0..(issues_on_page - 1) :
          /\ rawCount' = [rawCount EXCEPT ![project] = @ + k]
          /\ rawSet' = [rawSet EXCEPT ![project] = @ \cup PageRecords(current_index, k)]
    /\ NextProject
    /\ UNCHANGED <<file, checkpoint_data, runs, hist, visit, fetchVars, transVars>>

\* _save_issues_to_jsonl caught an IOError after writing k < n lines and
\* returned False: run_pipeline returns at once.
AppendFail ==
    /\ pc = "append"
    /\ \E k \in 0..(issues_on_page - 1) :
          /\ rawCount' = [rawCount EXCEPT ![project] = @ + k]
          /\ rawSet' = [rawSet EXCEPT ![project] = @ \cup PageRecords(current_index, k)]
    /\ pc' = "returned"
    /\ UNCHANGED <<file, checkpoint_data, i, current_index, total_issues,
                   issues_on_page, after, fetches, runs, hist, visit, fetchVars, transVars>>

\* _save_checkpoint, first half: open(checkpoint_file, 'w') truncates the file.
SaveOpen ==
    /\ pc = "save_open"
    /\ file' = FileCorrupt
    /\ pc' = "save_write"
    /\ UNCHANGED <<raw, checkpoint_data, i, current_index, total_issues,
                   issues_on_page, after, fetches, runs, hist, visit, fetchVars, transVars>>

\* Where control is once _save_checkpoint has returned.
AfterSave ==
    IF after = "check"
    THEN /\ pc' = "check"
         /\ after' = "none"
         /\ UNCHANGED <<i, current_index, total_issues, issues_on_page, visit,
                        fetches>>
    ELSE /\ NextProject
         /\ visit' = [visit EXCEPT ![project] = "completed"]

\* _save_checkpoint, second half: json.dump wrote the snapshot, the file is
\* closed.
SaveWrite ==
    /\ pc = "save_write"
    /\ file' = FileValid(checkpoint_data)
    /\ lastSnap' = checkpoint_data
    /\ everTerminal' = everTerminal \cup {p \in Projects : checkpoint_data[p].done}
    /\ AfterSave
    /\ UNCHANGED <<raw, checkpoint_data, runs, ranToEnd, remote, fetchVars, transVars>>

\* "4. Check if we're done": mark COMPLETED and save, then break.
CheckDone ==
    /\ pc = "check"
    /\ current_index >= total_issues
    /\ checkpoint_data' = [checkpoint_data EXCEPT ![project] = COMPLETED]
    /\ after' = "break"
    /\ pc' = "save_open"
    /\ fetches' = fetches
    /\ UNCHANGED <<file, raw, i, current_index, total_issues, issues_on_page,
                   runs, hist, visit, fetchVars, transVars>>

\* Mutant of CheckMore: the loop goes on whatever the offset is.
CheckMore_Always ==
    /\ pc = "check"
    /\ pc' = "fetch"
    /\ UNCHANGED <<file, raw, checkpoint_data, i, current_index, total_issues,
                   issues_on_page, after, fetches, runs, hist, visit, fetchVars, transVars>>

\* Not done: time.sleep(0.3), next iteration of the while loop.
CheckMore ==
    /\ pc = "check"
    /\ current_index < total_issues
    /\ pc' = "fetch"
    /\ UNCHANGED <<file, raw, checkpoint_data, i, current_index, total_issues,
                   issues_on_page, after, fetches, runs, hist, visit, fetchVars, transVars>>

\* The process is killed (or dies of an uncaught exception) anywhere but
\* inside the raw append; a file truncated by a save in progress stays so.
Kill ==
    /\ pc # "idle"
    /\ Exit
    /\ UNCHANGED <<file, raw, runs, hist, fetchVars, transVars>>

\* The process is killed inside _save_issues_to_jsonl, k lines flushed.
KillInAppend ==
    /\ pc = "append"
    /\ \E k \in 1..issues_on_page :
          /\ rawCount' = [rawCount EXCEPT ![project] = @ + k]
          /\ rawSet' = [rawSet EXCEPT ![project] = @ \cup PageRecords(current_index, k)]
    /\ Exit
    /\ UNCHANGED <<file, runs, hist, fetchVars, transVars>>

Next ==
    \/ Construct
    \/ RunPipeline
    \/ ProcessEnd
    \/ LoopSkip
    \/ LoopEnter
    \/ LoopExit
    \/ FetchFail
    \/ FetchOkZeroTotal
    \/ FetchOkEmptyPage
    \/ FetchOkPage
    \/ AppendOk
    \/ AppendFail
    \/ SaveOpen
    \/ SaveWrite
    \/ CheckDone
    \/ CheckMore
    \/ Kill
    \/ KillInAppend

Spec == Init /\ [][Next]_vars

TypeOK ==
    /\ file.st \in {"missing", "corrupt", "valid"}
    /\ \A p \in Projects : rawCount[p] \in Nat
    /\ DOMAIN checkpoint_data = Projects
    /\ pc \in {"idle", "constructed", "loop", "fetch", "append", "save_open",
               "save_write", "check", "returned"}
    /\ i \in 1..(NumProjects + 1)
    /\ visit \in [Projects -> {"no", "skipped", "entered", "failed", "zero_total",
                               "completed"}]

\* ------------------------------------------- checkpoint load, on its own
\* Every content the checkpoint file can have when a scraper is constructed:
\* absent, rejected by json.load, or an object over any subset of the
\* configured keys (one written under a longer project list included).
Markers == {Offset(n) : n \in 0..MaxTotal} \cup {COMPLETED}
CheckpointFiles ==
    {FileMissing, FileCorrupt}
        \cup UNION {{FileValid(m) : m \in [K -> Markers]} : K \in SUBSET ConfiguredKeys}

InitLoad ==
    /\ file \in CheckpointFiles
    /\ rawCount = [p \in Projects |-> 0]
    /\ rawSet = NoRecords
    /\ remote = [p \in Projects |-> 0]
    /\ ranToEnd = FALSE
    /\ checkpoint_data = ZeroMap
    /\ pc = "idle"
    /\ i = 1
    /\ current_index = 0
    /\ total_issues = -1
    /\ issues_on_page = 0
    /\ after = "none"
    /\ fetches = 0
    /\ runs = 0
    /\ lastSnap = ZeroMap
    /\ everTerminal = {}
    /\ visit = NotVisited
    /\ svc = [k \in 1..MAX_RETRIES |-> NetworkError]
    /\ fres = NoFetchResult
    /\ TransformerStart

NextLoad == Construct

SpecLoad == InitLoad /\ [][NextLoad]_vars

\* ------------------------------------------------ the fetcher, on its own
InitFetch ==
    /\ svc \in SvcSeqs
    /\ fres = NoFetchResult
    /\ file = FileMissing
    /\ rawCount = [p \in Projects |-> 0]
    /\ rawSet = NoRecords
    /\ remote = [p \in Projects |-> 0]
    /\ ranToEnd = FALSE
    /\ checkpoint_data = ZeroMap
    /\ pc = "idle"
    /\ i = 1
    /\ current_index = 0
    /\ total_issues = -1
    /\ issues_on_page = 0
    /\ after = "none"
    /\ fetches = 0
    /\ runs = 0
    /\ lastSnap = ZeroMap
    /\ everTerminal = {}
    /\ visit = NotVisited
    /\ TransformerStart

\* One call of _fetch_jira_page against the service svc.
CallFetch ==
    /\ ~fres.done
    /\ fres' = FetchJiraPage(svc)
    /\ UNCHANGED <<file, raw, checkpoint_data, pc, i, current_index,
                   total_issues, issues_on_page, after, fetches, runs, hist, visit, svc,
                   transVars>>

NextFetch == CallFetch

SpecFetch == InitFetch /\ [][NextFetch]_vars

\* ------------------------------- the pipeline over a steady remote service
\* The remote is fully available and unchanging: collection p holds the
\* records 1..remote[p]; every fetch succeeds, reports that total and returns
\* the records that start at the requested offset (none at or past the end).
InitSteady ==
    /\ remote \in [Projects -> 0..MaxTotal]
    /\ file = FileMissing
    /\ rawCount = [p \in Projects |-> 0]
    /\ rawSet = NoRecords
    /\ ranToEnd = FALSE
    /\ checkpoint_data = ZeroMap
    /\ pc = "idle"
    /\ i = 1
    /\ current_index = 0
    /\ total_issues = -1
    /\ issues_on_page = 0
    /\ after = "none"
    /\ fetches = 0
    /\ runs = 0
    /\ lastSnap = ZeroMap
    /\ everTerminal = {}
    /\ visit = NotVisited
    /\ svc = [k \in 1..MAX_RETRIES |-> NetworkError]
    /\ fres = NoFetchResult
    /\ TransformerStart

\* The first page of an empty collection.
SteadyZeroTotal ==
    /\ FetchOkZeroTotal
    /\ remote[project] = 0

\* A fetch at or past the end of a non-empty collection.
SteadyEmptyPage ==
    /\ FetchOkEmptyPage
    /\ remote[project] > 0
    /\ current_index >= remote[project]
    /\ total_issues' = remote[project]

\* A fetch before the end: the records that start at current_index.
SteadyPage ==
    /\ FetchOkPage
    /\ current_index < remote[project]
    /\ total_issues' = remote[project]
    /\ issues_on_page' <= remote[project] - current_index

NextSteady ==
    \/ Construct
    \/ RunPipeline
    \/ ProcessEnd
    \/ LoopSkip
    \/ LoopEnter
    \/ LoopExit
    \/ SteadyZeroTotal
    \/ SteadyEmptyPage
    \/ SteadyPage
    \/ AppendOk
    \/ SaveOpen
    \/ SaveWrite
    \/ CheckDone
    \/ CheckMore
    \/ Kill
    \/ KillInAppend

SpecSteady == InitSteady /\ [][NextSteady]_vars


\* ------------------------------------------------ one run, not interrupted
\* One process, started on any checkpoint file, that nothing kills: the
\* interpreter keeps executing it, whatever the service and the raw store do.
ConstructOnce ==
    /\ runs = 0
    /\ Construct

NextTerm ==
    \/ ConstructOnce
    \/ RunPipeline
    \/ ProcessEnd
    \/ LoopSkip
    \/ LoopEnter
    \/ LoopExit
    \/ FetchFail
    \/ FetchOkZeroTotal
    \/ FetchOkEmptyPage
    \/ FetchOkPage
    \/ AppendOk
    \/ AppendFail
    \/ SaveOpen
    \/ SaveWrite
    \/ CheckDone
    \/ CheckMore

SpecTerm == InitLoad /\ [][NextTerm]_vars /\ WF_vars(NextTerm)

\* No scraper is running, nothing was fetched or saved.
ScraperStart ==
    /\ file = FileMissing
    /\ rawCount = [p \in Projects |-> 0]
    /\ rawSet = NoRecords
    /\ remote = [p \in Projects |-> 0]
    /\ ranToEnd = FALSE
    /\ checkpoint_data = ZeroMap
    /\ pc = "idle"
    /\ i = 1
    /\ current_index = 0
    /\ total_issues = -1
    /\ issues_on_page = 0
    /\ after = "none"
    /\ fetches = 0
    /\ runs = 0
    /\ lastSnap = ZeroMap
    /\ everTerminal = {}
    /\ visit = NotVisited
    /\ svc = [k \in 1..MAX_RETRIES |-> NetworkError]
    /\ fres = NoFetchResult

scraperVars ==
    <<file, rawCount, rawSet, remote, checkpoint_data, pc, i, current_index,
      total_issues, issues_on_page, after, fetches, runs, lastSnap,
      everTerminal, visit, ranToEnd, svc, fres>>

\* ------------------------------------------- the normalizer, on its own
\* The sequences of length at most n over the set S.
SeqsUpTo(S, n) == UNION {[1..m -> S] : m \in 0..n}
NormAlphabet == {"<b>", "a", " ", "{", "}", "[", "|", "]"}
\* normalize("<b>Hi</b> {code}x=1{code} [Go|http://x]")
ExampleMarkup ==
    <<"<b>", "H", "i", "</b>", " ", "{", "c", "o", "d", "e", "}", "x", "=", "1",
      "{", "c", "o", "d", "e", "}", " ", "[", "G", "o", "|", "h", "t", "t", "p",
      ":", "/", "/", "x", "]">>
\* normalize("contact me at a@b.com from 10.0.0.1")
ExampleRedaction ==
    <<"c", "o", "n", "t", "a", "c", "t", " ", "m", "e", " ", "a", "t", " ",
      "a", "@", "b", ".", "c", "o", "m", " ", "f", "r", "o", "m", " ",
      "1", "0", ".", "0", ".", "0", ".", "1">>
\* A directive block between two words, with nothing else around it.
ExampleDirective == <<"a", "{", "x", "}", "b">>
\* A label that holds a directive block whose body is the bar.
ExampleOrder == <<"[", "a", "{", "|", "}", "b", "|", "c", "]">>
\* Line breaks, tabs, an address of four digits in a group, a word glued
\* to an address.
ExampleBlanks ==
    <<"\t", "a", "\n", "\n", "1", "0", "0", "0", ".", "1", ".", "1", ".", "1",
      " ", "v", "1", ".", "2", ".", "3", ".", "4", "<br>">>
NormExamples ==
    {ExampleMarkup, ExampleRedaction, ExampleDirective, ExampleOrder,
     ExampleBlanks}

InitNormalize ==
    /\ text \in {JNull} \cup {JText(s) : s \in SeqsUpTo(NormAlphabet, MaxText) \cup NormExamples}
    /\ cleaned = NotCleaned
    /\ raw_issue = NonObjectLine
    /\ derived = NotDerived
    /\ infile = NoRawFile
    /\ tpc = "idle"
    /\ pos = 1
    /\ seen_task_ids = {}
    /\ outfile = <<>>
    /\ count = 0
    /\ derived_count = 0
    /\ ScraperStart

\* One call of _clean_text(text).
CallCleanText ==
    /\ ~cleaned.done
    /\ cleaned' = [done |-> TRUE, val |-> CleanText(text)]
    /\ UNCHANGED <<scraperVars, text, raw_issue, derived, infile, tpc, pos,
                   seen_task_ids, outfile, count, derived_count>>

NextNormalize == CallCleanText

SpecNormalize == InitNormalize /\ [][NextNormalize]_vars

\* ---------------------------------------------- the deriver, on its own
Keys == {SStr("SPARK-1"), SStr("SPARK-2"), SMissing}
Summaries == {SMissing, SNull, SStr(""), SStr("s1"), SStr("s2")}
NameValues(n) == {SMissing, SNull, Named(n)}
Descriptions == {JMissing, JNull, JText(<<>>), JText(<<"<br>", " ">>), JText(<<"d">>)}
CommentLists ==
    {<<>>,
     <<Comment(Named("Ann"), JText(<<"c">>))>>,
     <<Comment(SMissing, JText(<<"{", "x", "}">>))>>,
     <<Comment(SNull, JText(<<"c">>))>>,
     <<Comment(Named("Ann"), JNull), Comment(SMissing, JText(<<"c">>))>>}
CommentValues == {CommentMissing, CommentNull} \cup {CommentDict(cs) : cs \in CommentLists}
FieldsValues ==
    {FieldsMissing, FieldsNull} \cup
        {FieldsDict(s, st, p, t, d, c) :
            s \in Summaries, st \in NameValues("Open"), p \in NameValues("Major"),
            t \in NameValues("Bug"), d \in Descriptions, c \in CommentValues}
\* What json.loads can give for a line of the raw file.
RawValues == {NonObjectLine} \cup {ObjectLine(k, f) : k \in Keys, f \in FieldsValues}

InitDerive ==
    /\ raw_issue \in RawValues
    /\ derived = NotDerived
    /\ text = JNull
    /\ cleaned = NotCleaned
    /\ infile = NoRawFile
    /\ tpc = "idle"
    /\ pos = 1
    /\ seen_task_ids = {}
    /\ outfile = <<>>
    /\ count = 0
    /\ derived_count = 0
    /\ ScraperStart

\* One call of _create_derived_tasks(raw_issue).
CallDerive ==
    /\ ~derived.done
    /\ derived' = [done |-> TRUE, raised |-> Derive(raw_issue).raised,
                   tasks |-> Derive(raw_issue).tasks]
    /\ UNCHANGED <<scraperVars, text, cleaned, raw_issue, infile, tpc, pos,
                   seen_task_ids, outfile, count, derived_count>>

NextDerive == CallDerive

SpecDerive == InitDerive /\ [][NextDerive]_vars

\* --------------------------------------------------- run_transformation
\* The lines a raw file is made of in the check of the pass: a line that is
\* not JSON, one that is JSON but no object, and records of two keys, with
\* and without what derive needs.
Record(key, summary, status, description, comment) ==
    ObjectLine(SStr(key),
               FieldsDict(SStr(summary), status, Named("Major"), Named("Bug"),
                          JText(description), comment))
StreamLines ==
    {MalformedLine, NonObjectLine,
     Record("SPARK-1", "s1", Named("Open"), <<"d">>, CommentMissing),
     Record("SPARK-1", "s2", Named("Done"), <<"d">>, CommentMissing),
     Record("SPARK-1", "", Named("Open"), <<"d">>, CommentMissing),
     Record("SPARK-1", "s1", SNull, <<"d">>, CommentMissing),
     Record("SPARK-2", "s1", Named("Open"), <<"d">>, CommentMissing),
     Record("SPARK-2", "s1", Named("Open"), <<"<br>">>, CommentMissing),
     Record("SPARK-2", "s1", Named("Open"), <<>>,
            CommentDict(<<Comment(SNull, JText(<<"c">>))>>))}

InitTransform ==
    /\ infile \in {NoRawFile} \cup {RawFile(ls) : ls \in SeqsUpTo(StreamLines, MaxLines)}
    /\ tpc = "idle"
    /\ pos = 1
    /\ seen_task_ids = {}
    /\ outfile = <<>>
    /\ count = 0
    /\ derived_count = 0
    /\ text = JNull
    /\ cleaned = NotCleaned
    /\ raw_issue = NonObjectLine
    /\ derived = NotDerived
    /\ ScraperStart

line == infile.lines[pos]

\* run_transformation is entered: without a raw file it returns; with one,
\* both files are opened (the output one for writing, so emptied).
TransformStart ==
    /\ tpc = "idle"
    /\ IF infile.exists
       THEN /\ tpc' = "loop"
            /\ outfile' = <<>>
            /\ seen_task_ids' = {}
            /\ count' = 0
            /\ derived_count' = 0
            /\ pos' = 1
       ELSE /\ tpc' = "returned"
            /\ UNCHANGED <<outfile, seen_task_ids, count, derived_count, pos>>
    /\ UNCHANGED <<scraperVars, text, cleaned, raw_issue, derived, infile>>

\* Mutant of SkipMalformed: the JSONDecodeError is not caught in the loop.
SkipMalformed_Abort ==
    /\ tpc = "loop"
    /\ pos <= Len(infile.lines)
    /\ line.kind = "malformed"
    /\ tpc' = "aborted"
    /\ UNCHANGED <<scraperVars, text, cleaned, raw_issue, derived, infile, pos,
                   seen_task_ids, outfile, count, derived_count>>

\* for line in infile: json.loads raises JSONDecodeError; the line is
\* logged, counted, and the loop goes on.
SkipMalformed ==
    /\ tpc = "loop"
    /\ pos <= Len(infile.lines)
    /\ line.kind = "malformed"
    /\ count' = count + 1
    /\ pos' = pos + 1
    /\ UNCHANGED <<scraperVars, text, cleaned, raw_issue, derived, infile, tpc,
                   seen_task_ids, outfile, derived_count>>

\* for line in infile: the line parses and _create_derived_tasks raises;
\* neither except clause of run_transformation takes the exception, the
\* with block closes the files and the pass ends there.
DeriveAbort ==
    /\ tpc = "loop"
    /\ pos <= Len(infile.lines)
    /\ line.kind # "malformed"
    /\ Derive(line).raised
    /\ tpc' = "aborted"
    /\ UNCHANGED <<scraperVars, text, cleaned, raw_issue, derived, infile, pos,
                   seen_task_ids, outfile, count, derived_count>>

\* Mutant of DeriveWrite: a written id is not added to seen_task_ids.
DeriveWrite_NoRecord ==
    /\ tpc = "loop"
    /\ pos <= Len(infile.lines)
    /\ line.kind # "malformed"
    /\ ~Derive(line).raised
    /\ LET st == WriteTasks(Derive(line).tasks, 1,
                    [seen |-> seen_task_ids, out |-> outfile, n |-> derived_count])
       IN  /\ seen_task_ids' = seen_task_ids
           /\ outfile' = st.out
           /\ derived_count' = st.n
    /\ count' = count + 1
    /\ pos' = pos + 1
    /\ UNCHANGED <<scraperVars, text, cleaned, raw_issue, derived, infile, tpc>>

\* for line in infile: the line parses, its tasks are derived and those
\* whose id was not seen are written; the line is counted.
DeriveWrite ==
    /\ tpc = "loop"
    /\ pos <= Len(infile.lines)
    /\ line.kind # "malformed"
    /\ ~Derive(line).raised
    /\ LET st == WriteTasks(Derive(line).tasks, 1,
                    [seen |-> seen_task_ids, out |-> outfile, n |-> derived_count])
       IN  /\ seen_task_ids' = st.seen
           /\ outfile' = st.out
           /\ derived_count' = st.n
    /\ count' = count + 1
    /\ pos' = pos + 1
    /\ UNCHANGED <<scraperVars, text, cleaned, raw_issue, derived, infile, tpc>>

\* The raw file is exhausted: the files are closed, the totals logged.
TransformEnd ==
    /\ tpc = "loop"
    /\ pos > Len(infile.lines)
    /\ tpc' = "returned"
    /\ UNCHANGED <<scraperVars, text, cleaned, raw_issue, derived, infile, pos,
                   seen_task_ids, outfile, count, derived_count>>

NextTransform ==
    \/ TransformStart
    \/ SkipMalformed
    \/ DeriveAbort
    \/ DeriveWrite
    \/ TransformEnd

SpecTransform == InitTransform /\ [][NextTransform]_vars

\* ================================================================ claims

\* C1. Checkpoint/data coupling: in every reachable state (every one is a
\* point where the process may be killed), the offset a re-run would resume
\* a collection from, that is what _load_checkpoint makes of the file as it
\* is, is at most the number of raw records appended for that collection.
C1_CheckpointDataCoupling ==
    \A p \in Projects :
        LET m == LoadCheckpoint(file)[p]
        IN  ~m.done => m.off <= rawCount[p]

\* C1 witness: no process is running, the persisted offset of a collection is
\* positive and more raw records than that are stored (a run died after
\* appending a part of the next page).
C1_Witness ==
    /\ pc = "idle"
    /\ file.st = "valid"
    /\ \E p \in Projects :
          /\ ~file.data[p].done
          /\ file.data[p].off > 0
          /\ rawCount[p] > file.data[p].off

\* Order of progress markers: offsets by value, COMPLETED above every offset
\* and final.
MarkerLeq(a, b) == IF a.done THEN b = a ELSE (b.done \/ a.off <= b.off)

\* C2. Monotonicity: every snapshot written to the checkpoint file gives
\* each collection a marker that is at least the one written before
\* (non-decreasing offsets, COMPLETED never replaced), across runs and kills.
C2_MonotoneMarkers ==
    [][\A p \in Projects : MarkerLeq(lastSnap[p], lastSnap'[p])]_vars

\* The fetch call of the while loop returns (whatever it returns).
FetchReturns ==
    FetchFail \/ FetchOkZeroTotal \/ FetchOkEmptyPage \/ FetchOkPage

\* C3. Once COMPLETED has been persisted for a collection, no later step of
\* any run fetches for that collection.
C3_TerminalNeverRefetched ==
    [][FetchReturns => project \notin everTerminal]_vars

\* C4. Atomic save: whenever no process is running (the last one returned
\* or was killed, at any point of a save included), the checkpoint file is
\* absent or holds a complete snapshot, never an empty or truncated text.
C4_SaveAtomic ==
    pc = "idle" => file.st # "corrupt"

\* C5. _load_checkpoint yields a marker for every configured collection:
\* all offsets 0 when the file is missing or corrupt; for a valid file,
\* offset 0 for every configured collection absent from it and the file's
\* marker, unchanged, for every key present in it.
C5_LoadTotalAndFaithful ==
    pc = "constructed" =>
        /\ Projects \subseteq DOMAIN checkpoint_data
        /\ (file.st \in {"missing", "corrupt"}) =>
              /\ DOMAIN checkpoint_data = Projects
              /\ \A p \in Projects : checkpoint_data[p] = [done |-> FALSE, off |-> 0]
        /\ (file.st = "valid") =>
              /\ \A p \in Projects \ DOMAIN file.data :
                    checkpoint_data[p] = [done |-> FALSE, off |-> 0]
              /\ \A p \in DOMAIN file.data :
                    /\ p \in DOMAIN checkpoint_data
                    /\ checkpoint_data[p] = file.data[p]

\* C5 witness: a valid file that lacks one configured collection and marks
\* the other COMPLETED has been loaded.
C5_Witness ==
    /\ pc = "constructed"
    /\ file.st = "valid"
    /\ projects_to_fetch[1] \notin DOMAIN file.data
    /\ projects_to_fetch[2] \in DOMAIN file.data
    /\ file.data[projects_to_fetch[2]].done
    /\ checkpoint_data[projects_to_fetch[1]] = Offset(0)

\* The answers the retry loop takes for transient: a network failure, a 429,
\* a 5xx.
IsTransient(r) == r.exc \/ r.status = 429 \/ r.status >= 500
AllAnswers(r) == \A k \in 1..MAX_RETRIES : svc[k] = r
\* Index of the first answer that is not transient; MAX_RETRIES + 1 if none.
FirstFinal ==
    IF \E k \in 1..MAX_RETRIES : ~IsTransient(svc[k])
    THEN CHOOSE k \in 1..MAX_RETRIES :
            /\ ~IsTransient(svc[k])
            /\ \A j \in 1..(k - 1) : IsTransient(svc[j])
    ELSE MAX_RETRIES + 1
\* The sleeps owed for the answers before the k-th: 60 s for a 429, 15 s for
\* a 5xx or a network failure.
RECURSIVE SleepBefore(_)
SleepBefore(k) ==
    IF k <= 1 THEN 0
    ELSE SleepBefore(k - 1)
            + (IF ~svc[k - 1].exc /\ svc[k - 1].status = 429 THEN 60 ELSE 15)

\* C6. Bounded retries: whatever the service answers, one call issues at
\* least one and at most MAX_RETRIES requests; when every answer is
\* transient (any mix of 429, 5xx, network failure), a 429 forever included,
\* the call fails after exactly MAX_RETRIES requests.
C6_BoundedRetries ==
    fres.done =>
        /\ fres.requests >= 1
        /\ fres.requests <= MAX_RETRIES
        /\ (FirstFinal > MAX_RETRIES) => (~fres.ok /\ fres.requests = MAX_RETRIES)
        /\ AllAnswers(Status(429)) => (~fres.ok /\ fres.requests = MAX_RETRIES)

\* C6 witness: a call against a service that answers 429 forever returned.
C6_Witness ==
    /\ fres.done
    /\ AllAnswers(Status(429))
    /\ ~fres.ok
    /\ fres.requests = MAX_RETRIES

\* C7. Retry exhaustion: against a service that answers 500 to every
\* request, the call issues exactly MAX_RETRIES requests, fails, and has
\* slept at least (MAX_RETRIES - 1) * 15 seconds in all.
C7_RetryExhaustion ==
    (fres.done /\ AllAnswers(Status(500))) =>
        /\ fres.requests = MAX_RETRIES
        /\ ~fres.ok
        /\ fres.slept >= (MAX_RETRIES - 1) * 15

\* C7 witness: such a call returned; it slept after each of its attempts.
C7_Witness ==
    /\ fres.done
    /\ AllAnswers(Status(500))
    /\ fres.slept = MAX_RETRIES * 15

\* C8. Client errors are not retried and the first success ends the call:
\* the call stops at the first answer that is not transient, having slept
\* for the transient answers before it only; it fails if that answer is a
\* non-success status and returns that answer's page if it is a success.
C8_ClientErrorNotRetried ==
    (fres.done /\ FirstFinal <= MAX_RETRIES) =>
        /\ fres.requests = FirstFinal
        /\ fres.slept = SleepBefore(FirstFinal)
        /\ (svc[FirstFinal].status >= 400) => ~fres.ok
        /\ (svc[FirstFinal].status < 400) =>
              (fres.ok /\ fres.body = svc[FirstFinal].body)

\* C8 witness: a 404 that came as the third answer, after a 429 and a 500,
\* ended the call with two attempt slots left.
C8_Witness ==
    /\ fres.done
    /\ svc[1] = Status(429)
    /\ svc[2] = Status(500)
    /\ svc[3] = Status(404)
    /\ ~fres.ok
    /\ fres.requests = 3
    /\ fres.slept = 75

\* C9. A fetch failure stops only the affected collection: the step at which
\* a collection's fetch fails changes neither the checkpoint (in memory, on
\* disk) nor the raw store and passes control to the head of the for loop at
\* the next collection; the collections are visited in the configured order,
\* and a run that reaches the end of the loop has visited them all.
C9_FetchFailureIsLocal ==
    /\ [][(pc = "fetch" /\ visit'[project] = "failed") =>
            /\ pc' = "loop"
            /\ i' = i + 1
            /\ checkpoint_data' = checkpoint_data
            /\ file' = file
            /\ lastSnap' = lastSnap
            /\ rawCount' = rawCount]_vars
    /\ [](\A k \in 1..NumProjects :
            (visit[projects_to_fetch[k]] # "no") <=>
                (pc \notin {"idle", "constructed"} /\
                    (k < i \/ (k = i /\ pc # "loop"))))
    /\ []((pc = "returned" /\ i > NumProjects) =>
            \A p \in Projects : visit[p] # "no")

\* C9 witness: the first collection's fetch failed and the second one is
\* being fetched in the same run.
C9_Witness ==
    /\ pc = "fetch"
    /\ i = 2
    /\ visit[projects_to_fetch[1]] = "failed"
    /\ visit[projects_to_fetch[2]] = "entered"

\* C10. A raw-record write failure is fatal to the run: the step at which an
\* append writes fewer lines than the page has, the process surviving, makes
\* run_pipeline return with the checkpoint as it was, in memory and on disk;
\* after the return nothing happens but the end of the process.
C10_WriteFailureIsFatal ==
    [][/\ (/\ pc = "append"
           /\ pc' # "idle"
           /\ rawCount'[project] < rawCount[project] + issues_on_page) =>
              /\ pc' = "returned"
              /\ i' = i
              /\ checkpoint_data' = checkpoint_data
              /\ file' = file
              /\ lastSnap' = lastSnap
       /\ (pc = "returned") =>
              /\ pc' = "idle"
              /\ file' = file
              /\ lastSnap' = lastSnap
              /\ rawCount' = rawCount]_vars

\* C10 witness: the run returned from the first collection's loop after a
\* write failure that left a part of the page in the raw store; the second
\* collection was never visited.
C10_Witness ==
    /\ pc = "returned"
    /\ i = 1
    /\ rawCount[projects_to_fetch[1]] = 1
    /\ checkpoint_data[projects_to_fetch[1]] = Offset(0)
    /\ visit[projects_to_fetch[2]] = "no"

\* C11. Empty collection: once the first page fetched for a collection in a
\* run has reported a total of zero and the collection's loop has stopped,
\* the checkpoint file holds the terminal marker for that collection.
C11_ZeroTotalMarkedTerminal ==
    \A p \in Projects :
        visit[p] = "zero_total" => (file.st = "valid" /\ file.data[p].done)

\* Every record of every configured collection is in the raw store.
AllRecordsStored == \A p \in Projects : rawSet[p] = 1..remote[p]

\* C12. Idempotence and no loss over a steady remote: whenever the terminal
\* marker of a collection is persisted, every record of that collection is in
\* the raw store, kills and restarts included; once a run has gone through
\* its whole loop the raw store holds exactly the records of every
\* collection, and from then on no run fetches or appends anything.
C12_IdempotentNoLoss ==
    /\ [](\A p \in Projects :
            (file.st = "valid" /\ file.data[p].done) => rawSet[p] = 1..remote[p])
    /\ [](ranToEnd => AllRecordsStored)
    /\ [][ranToEnd => (pc' # "fetch" /\ rawCount' = rawCount)]_vars

\* C18. Exact advance per page: every fetch of a run is issued at the offset
\* the checkpoint file holds for the collection (as _load_checkpoint reads
\* it), which is also the one in memory; the step that appends a whole page
\* adds exactly its N >= 1 records to the raw store and advances the offset
\* by exactly N; until the next fetch, the save and the check change neither
\* the offset nor the raw store.
C18_ExactAdvancePerPage ==
    /\ [](pc = "fetch" =>
            /\ LoadCheckpoint(file)[project] = Offset(current_index)
            /\ checkpoint_data[project] = Offset(current_index))
    /\ [][(pc = "append" /\ pc' \notin {"idle", "returned"}) =>
            /\ issues_on_page >= 1
            /\ rawCount'[project] = rawCount[project] + issues_on_page
            /\ rawSet'[project] =
                  rawSet[project] \cup PageRecords(current_index, issues_on_page)
            /\ current_index' = current_index + issues_on_page
            /\ checkpoint_data'[project] = Offset(current_index')
            /\ pc' = "save_open"]_vars
    /\ [][(pc \in {"save_open", "save_write", "check"} /\ pc' # "idle" /\ i' = i) =>
            /\ current_index' = current_index
            /\ rawCount' = rawCount
            /\ pc' = "fetch" => (file.st = "valid" /\ file' = file)]_vars

\* C18 witness: the second fetch of a collection is about to be issued at
\* offset 1, after a page of one record was appended and offset 1 saved.
C18_Witness ==
    /\ pc = "fetch"
    /\ runs = 1
    /\ fetches = 1
    /\ issues_on_page = 1
    /\ current_index = 1
    /\ rawCount[project] = 1
    /\ file = FileValid(checkpoint_data)
    /\ file.data[project] = Offset(1)

\* C19. Empty page ends the collection: the step at which a successful page
\* with no records arrives for a collection whose recorded total is not zero
\* (the fetch neither failed nor reported a zero total nor brought records)
\* marks the collection COMPLETED in memory and appends nothing, whether the
\* offset is below the total or not; the save that follows puts the marker in
\* the checkpoint file and the for loop moves on to the next collection.
C19_EmptyPageEndsCollection ==
    /\ [][(/\ pc = "fetch"
           /\ pc' \notin {"idle", "append"}
           /\ visit'[project] \notin {"failed", "zero_total"}) =>
            /\ total_issues' > 0
            /\ issues_on_page' = 0
            /\ checkpoint_data'[project] = COMPLETED
            /\ rawCount' = rawCount
            /\ rawSet' = rawSet
            /\ after' = "break"
            /\ pc' = "save_open"]_vars
    /\ [](pc \in {"save_open", "save_write"} /\ after = "break" =>
            checkpoint_data[project] = COMPLETED)
    /\ [][(pc \in {"save_open", "save_write"} /\ after = "break" /\ pc' # "idle") =>
            /\ rawCount' = rawCount
            /\ pc = "save_write" =>
                  /\ file'.st = "valid"
                  /\ file'.data[project] = COMPLETED
                  /\ pc' = "loop"
                  /\ i' = i + 1]_vars

\* C19 witness: in the first run the first collection got an empty page at
\* offset 0 with a total that is not zero (fewer records than promised); its
\* COMPLETED is in the file, nothing was appended, the loop is at the second
\* collection.
C19_Witness ==
    /\ runs = 1
    /\ pc = "loop"
    /\ i = 2
    /\ visit[projects_to_fetch[1]] = "completed"
    /\ file.st = "valid"
    /\ file.data[projects_to_fetch[1]] = COMPLETED
    /\ rawCount[projects_to_fetch[1]] = 0

\* The total recorded on the first page of the collection's loop, as known
\* at a step that ends a fetch: -1 if no page has arrived yet.
RecordedTotal ==
    IF total_issues # -1 THEN total_issues
    ELSE IF visit'[project] = "zero_total" THEN 0
    ELSE total_issues'

\* The iteration bound: fetch calls in a collection's loop never exceed n.
FetchesWithin(n) == fetches + 1 <= n

\* C20 as stated: a collection's loop performs at most total iterations.
C20_AtMostTotalIterations ==
    [][(pc = "fetch" /\ pc' # "idle" /\ RecordedTotal # -1) =>
            FetchesWithin(RecordedTotal)]_vars

\* C20. Every pipeline run terminates: a process that is not killed reaches
\* the return of run_pipeline, whatever the service and the raw store do;
\* each step of a collection's loop that goes back to the fetch has the
\* offset strictly below the recorded total and each appended page raises it
\* by at least one, so a collection's loop makes at most max(1, total) fetch
\* calls (of at most MAX_RETRIES requests each, C6).
C20_RunTerminates ==
    /\ <>(pc = "returned")
    /\ [][(pc = "fetch" /\ pc' # "idle" /\ RecordedTotal # -1) =>
            FetchesWithin(IF RecordedTotal = 0 THEN 1 ELSE RecordedTotal)]_vars
    /\ [][(pc = "check" /\ pc' = "fetch") => current_index < total_issues]_vars
    /\ [][(pc = "append" /\ pc' = "save_open") => current_index' > current_index]_vars

\* C20 witness: a run resumed its first collection from offset 1, fetched
\* twice for it and returned.
C20_Witness ==
    /\ pc = "returned"
    /\ i > NumProjects
    /\ rawCount[projects_to_fetch[1]] = 2
    /\ \A p \in Projects : visit[p] # "no"
    /\ visit[projects_to_fetch[1]] = "completed"

\* The ids of the tasks in the output file.
WrittenIds == {outfile[m].id : m \in 1..Len(outfile)}
\* The lines the for loop is done with.
Processed == 1..(IF tpc = "idle" THEN 0 ELSE pos - 1)
\* Line j yields tasks and no line before it yields tasks for the same key.
FirstYielding(j) ==
    /\ infile.lines[j].kind = "object"
    /\ Derive(infile.lines[j]).tasks # <<>>
    /\ \A h \in 1..(j - 1) :
          (infile.lines[h].kind = "object" /\ Derive(infile.lines[h]).tasks # <<>>)
              => KeyStr(infile.lines[h].key) # KeyStr(infile.lines[j].key)

\* C13. Output uniqueness: at every point of a pass no two tasks of the
\* output file have the same id and seen_task_ids holds exactly the ids
\* written; for every key, the output holds exactly the four tasks of the
\* first processed line that yields tasks for that key, whatever lies between
\* it and the later lines of the same key.
C13_OutputUnique ==
    /\ \A m, n \in 1..Len(outfile) : outfile[m].id = outfile[n].id => m = n
    /\ tpc # "idle" => (seen_task_ids = WrittenIds /\ derived_count = Len(outfile))
    /\ \A j \in Processed :
          FirstYielding(j) =>
              /\ \A k \in 1..4 :
                    \E m \in 1..Len(outfile) : outfile[m] = Derive(infile.lines[j]).tasks[k]
              /\ Cardinality({m \in 1..Len(outfile) :
                                 outfile[m].id[1] = KeyStr(infile.lines[j].key)}) = 4

\* C13 witness: the pass returned; the first and the third line are records
\* of the same key with different summaries, a record of another key lies
\* between them; eight tasks were written, the summary task of the repeated
\* key is that of the first line.
C13_Witness ==
    /\ tpc = "returned"
    /\ Len(infile.lines) = 3
    /\ infile.lines[1] = Record("SPARK-1", "s1", Named("Open"), <<"d">>, CommentMissing)
    /\ infile.lines[2] = Record("SPARK-2", "s1", Named("Open"), <<"d">>, CommentMissing)
    /\ infile.lines[3] = Record("SPARK-1", "s2", Named("Done"), <<"d">>, CommentMissing)
    /\ Len(outfile) = 8
    /\ outfile[1].id = <<"SPARK-1", "_summary">>
    /\ outfile[1].completion = "s1"
    /\ outfile[2].completion = "Open"

\* What derive tests before it builds the tasks: the summary is empty, or
\* the cleaned description and the comments' text both are.
NothingToDerive(r) ==
    LET fields == FieldsOf(r)
    IN  \/ SummaryOf(fields.summary) = ""
        \/ /\ CleanText(fields.description) = <<>>
           /\ \A j \in 1..Len(fields.comment.comments) :
                 CleanText(fields.comment.comments[j].body) = <<>>
\* The four tasks of a record: ids and completions, in order.
FourTasks(r, tasks) ==
    LET fields == FieldsOf(r)
        completions ==
            <<SummaryOf(fields.summary), NameOf(fields.status, "Unknown"),
              NameOf(fields.priority, "Unknown"), NameOf(fields.issuetype, "Unknown")>>
    IN  /\ Len(tasks) = 4
        /\ \A k \in 1..4 :
              /\ tasks[k].id = <<KeyStr(r.key), TaskSuffixes[k]>>
              /\ tasks[k].completion = completions[k]

\* C14 as stated: for a record, derive returns no task when the summary is
\* empty or description and comments both are, and otherwise exactly the
\* four tasks.
C14_FourTasksOtherwise ==
    (derived.done /\ raw_issue.kind = "object") =>
        /\ ~derived.raised
        /\ IF NothingToDerive(raw_issue)
           THEN derived.tasks = <<>>
           ELSE FourTasks(raw_issue, derived.tasks)

\* C14. Deriver output shape: whenever derive returns, it returns no task or
\* exactly four; for a record it returns no task when the summary is empty,
\* when description and comment text both are, or when a member it reads has
\* an unexpected shape (fields, status, priority, issuetype, comment or a
\* comment's author is null), and otherwise exactly the four tasks with the
\* ids key_summary, key_qna_status, key_classify_priority, key_classify_type
\* and the completions summary, status, priority and issue type.
C14_DeriverShape ==
    derived.done =>
        /\ ~derived.raised => Len(derived.tasks) \in {0, 4}
        /\ raw_issue.kind = "object" =>
              /\ ~derived.raised
              /\ IF DeriveFails(raw_issue) \/ NothingToDerive(raw_issue)
                 THEN derived.tasks = <<>>
                 ELSE FourTasks(raw_issue, derived.tasks)

\* C14 witness: a record without status, with an empty description and one
\* comment with a body yielded four tasks, the status one saying Unknown.
C14_Witness ==
    /\ derived.done
    /\ raw_issue.kind = "object"
    /\ raw_issue.fields.tag = "dict"
    /\ raw_issue.fields.status = SMissing
    /\ raw_issue.fields.description = JText(<<>>)
    /\ Len(derived.tasks) = 4
    /\ derived.tasks[1].id = <<"SPARK-1", "_summary">>
    /\ derived.tasks[2].id = <<"SPARK-1", "_qna_status">>
    /\ derived.tasks[2].completion = "Unknown"
    /\ derived.tasks[4].completion = "Bug"

\* C15. Derivation failures are never fatal: no pass is aborted by an
\* exception; a line that parses as JSON (an object or not) is stepped over
\* with the loop going on, and a pass over an existing raw file returns
\* having counted every line.
C15_DeriveNeverFatal ==
    /\ [](tpc # "aborted")
    /\ [][(tpc = "loop" /\ pos <= Len(infile.lines) /\ line.kind # "malformed") =>
            (tpc' = "loop" /\ pos' = pos + 1 /\ count' = count + 1)]_vars
    /\ []((tpc = "returned" /\ infile.exists) => count = Len(infile.lines))

\* C16. Malformed lines are skipped, not fatal: the step of the loop at a
\* line that is not JSON writes no task, leaves seen_task_ids and
\* derived_count as they are, counts the line and goes on to the next line;
\* no pass ends at a malformed line, and the tasks of every line processed
\* after it are in the output.
C16_MalformedSkipped ==
    /\ [][(tpc = "loop" /\ pos <= Len(infile.lines) /\ line.kind = "malformed") =>
            /\ tpc' = "loop"
            /\ pos' = pos + 1
            /\ count' = count + 1
            /\ outfile' = outfile
            /\ seen_task_ids' = seen_task_ids
            /\ derived_count' = derived_count]_vars
    /\ [](tpc = "aborted" => line.kind = "nonobject")
    /\ [](\A j \in Processed :
            /\ count >= j
            /\ infile.lines[j].kind = "object" =>
                  \A k \in 1..Len(Derive(infile.lines[j]).tasks) :
                      Derive(infile.lines[j]).tasks[k].id \in WrittenIds)

\* C16 witness: the pass returned from a file whose first line is not JSON
\* and whose second line is a record; both are counted, four tasks written.
C16_Witness ==
    /\ tpc = "returned"
    /\ Len(infile.lines) = 2
    /\ infile.lines[1] = MalformedLine
    /\ infile.lines[2] = Record("SPARK-2", "s1", Named("Open"), <<"d">>, CommentMissing)
    /\ count = 2
    /\ derived_count = 4
    /\ Len(outfile) = 4

\* normalize as C17 states it: the steps in order, a directive block deleted.
NormalizeAsStated(t) ==
    IF t.tag # "str" \/ t.val = <<>> THEN <<>>
    ELSE Strip(SubWhitespace(SubIPs(SubEmails(SubLinks(SubDirectives_Delete(
             GetText(t.val, 1, "start"), 1), 1), 1), 1), 1))

\* C17 as stated: the result of normalize is that of the stated steps, the
\* directive step deleting the whole block.
C17_DirectiveDeleted ==
    cleaned.done => cleaned.val = NormalizeAsStated(text)

ExpectedMarkup == <<"H", "i", " ", "x", "=", "1", " ", "G", "o">>
ExpectedRedaction ==
    <<"c", "o", "n", "t", "a", "c", "t", " ", "m", "e", " ", "a", "t", " ",
      EMAIL_REMOVED, " ", "f", "r", "o", "m", " ", IP_REMOVED>>
ExpectedBlanks ==
    <<"a", " ", "1", "0", "0", "0", ".", "1", ".", "1", ".", "1", " ",
      "v", "1", ".", "2", ".", "3", ".", "4">>
\* The words of t: the maximal runs of elements that are neither a tag nor
\* a blank, joined by single spaces.
RECURSIVE JoinedWords(_, _, _)
JoinedWords(t, k, mode) ==
    IF k > Len(t) THEN <<>>
    ELSE IF t[k] \in Tags \cup Whitespace
         THEN JoinedWords(t, k + 1, IF mode = "start" THEN "start" ELSE "gap")
         ELSE (IF mode = "gap" THEN <<" ", t[k]>> ELSE <<t[k]>>)
                  \o JoinedWords(t, k + 1, "word")

\* C17. Normalizer steps: tags become word boundaries, a directive block
\* {...} is replaced by a single space, [label|target] becomes label (after
\* the directive step), e-mail addresses and IPv4 addresses are redacted,
\* blanks are collapsed and trimmed: the result holds no tag, no directive
\* block, no blank but single inner spaces; a text of words, tags and blanks
\* only gives its words joined by single spaces; the examples give
\* "Hi x=1 Go", "contact me at [EMAIL_REMOVED] from [IP_REMOVED]" and
\* "a b" for "a{x}b"; an empty or missing text gives the empty string.
C17_NormalizerSteps ==
    cleaned.done =>
        LET t == text.val
            out == cleaned.val
        IN  /\ (text.tag # "str" \/ t = <<>>) => out = <<>>
            /\ t = ExampleMarkup => out = ExpectedMarkup
            /\ t = ExampleRedaction => out = ExpectedRedaction
            /\ t = ExampleDirective => out = <<"a", " ", "b">>
            /\ t = ExampleOrder => out = <<"a", " ", "b">>
            /\ t = ExampleBlanks => out = ExpectedBlanks
            /\ \A j \in 1..Len(out) :
                  /\ out[j] \notin Tags
                  /\ out[j] \in Whitespace =>
                        /\ out[j] = " "
                        /\ 1 < j
                        /\ j < Len(out)
                        /\ out[j + 1] \notin Whitespace
            /\ ~\E j, k \in 1..Len(out) :
                  /\ out[j] = "{"
                  /\ k >= j + 2
                  /\ out[k] = "}"
                  /\ \A h \in (j + 1)..(k - 1) : out[h] # "}"
            /\ (\A j \in 1..Len(t) : t[j] \in Tags \cup Whitespace \cup {"a"}) =>
                  out = JoinedWords(t, 1, "start")

\* C17 witness: "a{x}b" was normalized to "a b".
C17_Witness ==
    /\ cleaned.done
    /\ text = JText(ExampleDirective)
    /\ cleaned.val = <<"a", " ", "b">>

====
